---- MODULE Spec2Model ----
(***************************************************************************)
(* Investor dashboard backend: CSV ingestion (upload_csv_data) into the    *)
(* "investors" collection and the aggregation queries that read it         *)
(* (get_investors_summary, get_investor_details, get_investment_stats).    *)
(***************************************************************************)
EXTENDS Integers, Sequences, FiniteSets, TLC

\* ------------------------------------------------------------------ bounds
\* Longest CSV file, in data rows.
MaxRows == 2
\* Number of uploads whose documents can all be given a fresh ObjectId.
MaxUploads == 2
\* ObjectIds are 1..MaxId; an upload inserts at most one document per row.
MaxId == MaxUploads * MaxRows

\* ------------------------------------------------- binary floating point
(***************************************************************************)
(* Amounts are stored as BSON doubles (float(commitment["amount"])) and    *)
(* the pipelines multiply and add doubles.  A double is written here as    *)
(* its exact binary expansion in digits of 16 bits: one integer digit and  *)
(* FracDigits fraction digits, most significant first, with the binary     *)
(* point after the first digit.  At most Precision consecutive bits,       *)
(* starting at the leading 1, are set.  Every value of the model lies in   *)
(* [2^-7, 2^16), and a double in that range has no bit below 2^-59, so the *)
(* expansion is exact.                                                     *)
(***************************************************************************)
FracDigits == 4
Digits == 1 + FracDigits
Precision == 53

Pow2[n \in 0..16] == IF n = 0 THEN 1 ELSE 2 * Pow2[n - 1]
Base == Pow2[16]
Bits == 16 * Digits

Zero == [k \in 1..Digits |-> 0]

\* Long division r/d (r < d) carried on for n fraction digits: the remainder
\* left, and the n digits.
RECURSIVE FracPart(_, _, _)
FracPart(r, d, n) ==
  IF n = 0 THEN <<r, <<>>>>
  ELSE LET rest == FracPart((r * Base) % d, d, n - 1)
       IN <<rest[1], <<(r * Base) \div d>> \o rest[2]>>

\* Number of bits of the digit v: 0 for 0, 16 for 2^15 and above.
BitLength(v) == CHOOSE t \in 0..16 : v < Pow2[t] /\ (t = 0 \/ v >= Pow2[t - 1])

\* Position of the leading 1 among the Bits bits (1 is the most significant),
\* Bits + 1 when there is none.
Leading(a) ==
  IF \A k \in 1..Digits : a[k] = 0 THEN Bits + 1
  ELSE LET k == CHOOSE i \in 1..Digits : a[i] # 0 /\ \A j \in 1..(i - 1) : a[j] = 0
       IN 16 * k - BitLength(a[k]) + 1

\* a + b from digit k to the last: the carry out of digit k, and the digits
\* k..Digits of the sum.
RECURSIVE AddFrom(_, _, _)
AddFrom(a, b, k) ==
  IF k > Digits THEN <<0, <<>>>>
  ELSE LET low == AddFrom(a, b, k + 1)
           s == a[k] + b[k] + low[1]
       IN <<s \div Base, <<s % Base>> \o low[2]>>

\* The carry out of the first digit is dropped: no value reaches 2^16.
AddBits(a, b) == AddFrom(a, b, 1)[2]

\* IEEE 754 round-to-nearest, ties-to-even, to Precision significant bits;
\* sticky says that the exact value has further 1 bits beyond the last digit.
RoundNearestEven(a, sticky) ==
  LET last == Leading(a) + Precision - 1    \* position of the last bit kept
  IN IF last >= Bits THEN a
     ELSE LET kl == ((last - 1) \div 16) + 1  \* the digit holding that bit
              low == 16 * kl - last           \* bits of that digit below it
              unit == Pow2[low]
              guard == IF low > 0 THEN (a[kl] \div Pow2[low - 1]) % 2
                       ELSE a[kl + 1] \div Pow2[15]
              rest == \/ sticky
                      \/ IF low > 0
                         THEN \/ a[kl] % Pow2[low - 1] # 0
                              \/ \E k \in (kl + 1)..Digits : a[k] # 0
                         ELSE \/ a[kl + 1] % Pow2[15] # 0
                              \/ \E k \in (kl + 2)..Digits : a[k] # 0
              kept == [k \in 1..Digits |->
                         IF k < kl THEN a[k]
                         ELSE IF k = kl THEN a[kl] - (a[kl] % unit) ELSE 0]
              ulp == [k \in 1..Digits |-> IF k = kl THEN unit ELSE 0]
          IN IF guard = 1 /\ (rest \/ (a[kl] \div unit) % 2 = 1)
             THEN AddBits(kept, ulp) ELSE kept

\* The double nearest to the decimal n/d (float(Decimal), and the reading
\* back of a decimal literal).
DecimalToFloat(n, d) ==
  LET frac == FracPart(n % d, d, FracDigits)
  IN RoundNearestEven(<<n \div d>> \o frac[2], frac[1] # 0)

\* a / 4, exactly: the two bits shifted out of the last digit are 0.
ShiftRight2(a) ==
  [k \in 1..Digits |->
     (a[k] \div 4) + (IF k = 1 THEN 0 ELSE (a[k - 1] % 4) * Pow2[14])]

\* Comparison of two doubles (both non-negative): a < b.
Less(a, b) ==
  \E k \in 1..Digits : a[k] < b[k] /\ \A j \in 1..(k - 1) : a[j] = b[j]

\* ------------------------------------------------------------ enumerations
InvestorTypeEnum == {"asset manager", "bank", "fund manager", "wealth manager"}

AssetClassEnum == {"Hedge Funds", "Infrastructure", "Natural Resources",
                   "Private Debt", "Private Equity", "Real Estate"}

CurrencyEnum == {"GBP", "USD"}

\* --------------------------------------------------------------- CSV text
(***************************************************************************)
(* A CSV field is a sequence of tokens, each a blank " " or a chunk of     *)
(* text with no blank at either end.  str.strip() drops the blanks at both *)
(* ends.                                                                   *)
(***************************************************************************)
RECURSIVE LStrip(_)
LStrip(t) == IF t # <<>> /\ Head(t) = " " THEN LStrip(Tail(t)) ELSE t

RECURSIVE RStrip(_)
RStrip(t) == IF t # <<>> /\ t[Len(t)] = " " THEN RStrip(SubSeq(t, 1, Len(t) - 1))
             ELSE t

Strip(t) == RStrip(LStrip(t))

\* Enum(value): the member equal to the text, or a ValueError.
IsMember(enum, t) == Len(t) = 1 /\ t[1] \in enum

\* A data row of the file, by column.  The amount column is a decimal
\* literal with two fraction digits, written as its number of hundredths.
Row(name, type, country, asset, amount, currency) ==
  [name |-> name, investor_type |-> type, country |-> country,
   asset_class |-> asset, amount |-> amount, currency |-> currency]

\* Rows of the sequential runs: two investors (one spelt with and without a
\* trailing blank), whole and fractional amounts in both currencies, and one
\* row for each enumeration with a value outside it.
Rows ==
  { Row(<<"A">>, <<"bank">>, <<"United Kingdom">>, <<"Hedge Funds">>, 10000, <<"GBP">>),
    Row(<<"A", " ">>, <<"bank">>, <<"United Kingdom">>, <<"Hedge Funds">>, 5000, <<"USD">>),
    Row(<<"B">>, <<"fund manager">>, <<"United States">>, <<"Private Equity">>, 10, <<"USD">>),
    Row(<<"B">>, <<"fund manager">>, <<"United States">>, <<"Private Equity">>, 20, <<"USD">>),
    Row(<<"A">>, <<"bank">>, <<"United Kingdom">>, <<"Crypto">>, 10000, <<"GBP">>),
    Row(<<"B">>, <<"fund manager">>, <<"United States">>, <<"Private Equity">>, 10, <<"EUR">>),
    Row(<<"A">>, <<"hedge fund">>, <<"United Kingdom">>, <<"Hedge Funds">>, 10000, <<"GBP">>) }

\* Rows of the concurrent runs.
ConcRows ==
  { Row(<<"A">>, <<"bank">>, <<"United Kingdom">>, <<"Hedge Funds">>, 10000, <<"GBP">>),
    Row(<<"B">>, <<"fund manager">>, <<"United States">>, <<"Private Equity">>, 10, <<"USD">>) }

SeqsUpTo(S, n) == UNION {[1..k -> S] : k \in 0..n}

\* An uploaded body: UTF-8 text with the header and some rows, or bytes that
\* content.decode("utf-8") refuses.
CsvFile(rows) == [decodable |-> TRUE, rows |-> rows]

Undecodable == [decodable |-> FALSE, rows |-> <<>>]

Files == {CsvFile(r) : r \in SeqsUpTo(Rows, MaxRows)} \cup {Undecodable}

ConcFiles == {CsvFile(r) : r \in SeqsUpTo(ConcRows, MaxRows)} \cup {Undecodable}

\* The workers that serve requests concurrently (tasks of the event loop).
NumWorkers == 2
Workers == 1..NumWorkers

\* ------------------------------------------------------------------ state
VARIABLES
  store,              \* the investors collection: documents in insertion order
  nextId,             \* the next ObjectId the driver hands out
  pc,                 \* per worker: where its upload_csv_data call stands
  file,               \* per worker: the body of the request it serves
  investors_data,     \* per worker: the investors grouped by the parse loop
  total_commitments,  \* per worker: rows counted by the parse loop
  inserted,           \* per worker: documents insert_many has written so far
  reply,              \* the response sent by the step just taken, if any
  before,             \* per worker: the collection as the request arrived
  lastUpload          \* the last successful upload, while only uploads of
                      \* the same file have followed it

vars == <<store, nextId, pc, file, investors_data, total_commitments, inserted,
          reply, before, lastUpload>>

NoReply == [op |-> "none"]
NoUpload == [times |-> 0]
InFlight == {p \in Workers : pc[p] # "idle"}

\* ------------------------------------------------------------- ingestion
\* CommitmentModel(asset_class=AssetClassEnum(..), amount=Decimal(..),
\* currency=CurrencyEnum(..)): raises unless both values are members.
\* As ValidAssetClass, accepting any text as an asset class.
AnyAssetClass(row) == Len(Strip(row.asset_class)) = 1

ValidAssetClass(row) == IsMember(AssetClassEnum, Strip(row.asset_class))

ValidCurrency(row) == IsMember(CurrencyEnum, Strip(row.currency))

ValidInvestorType(row) == IsMember(InvestorTypeEnum, Strip(row.investor_type))

Commitment(row) ==
  [asset_class |-> Strip(row.asset_class)[1], amount |-> row.amount,
   currency |-> Strip(row.currency)[1]]

\* As GroupKey, without the strip.
RawKey(row) == row.name

\* The key a row is grouped under.
GroupKey(row) == Strip(row.name)

\* As IndexOf, never finding the name.
NeverFound(data, name) == 0

\* Position of the investor called name in investors_data, 0 when absent.

IndexOf(data, name) ==
  IF \E i \in 1..Len(data) : data[i].name = name
  THEN CHOOSE i \in 1..Len(data) : data[i].name = name
  ELSE 0

NewInvestor(row) ==
  [name |-> GroupKey(row), investor_type |-> Strip(row.investor_type)[1],
   country |-> Strip(row.country), commitments |-> <<>>]

\* The loop left by the exception that error names.
Failed(error) ==
  [ok |-> FALSE, error |-> error, investors_data |-> <<>>, total_commitments |-> 0]

\* The loop over csv_reader from row i on; an exception leaves the loop.
RECURSIVE ParseLoop(_, _, _, _)
ParseLoop(rows, i, data, count) ==
  IF i > Len(rows)
  THEN [ok |-> TRUE, error |-> "", investors_data |-> data,
        total_commitments |-> count]
  ELSE LET row == rows[i]
           at == IndexOf(data, GroupKey(row))
       IN IF ~ValidAssetClass(row) THEN Failed("AssetClassEnum")
          ELSE IF ~ValidCurrency(row) THEN Failed("CurrencyEnum")
          ELSE IF at = 0 /\ ~ValidInvestorType(row) THEN Failed("InvestorTypeEnum")
          ELSE LET known == IF at = 0 THEN Append(data, NewInvestor(row)) ELSE data
                   j == IF at = 0 THEN Len(known) ELSE at
               IN ParseLoop(rows, i + 1,
                            [known EXCEPT ![j].commitments = Append(@, Commitment(row))],
                            count + 1)

\* Lines 85-135: read, decode, parse and group.
ParseFile(f) ==
  IF f.decodable THEN ParseLoop(f.rows, 1, <<>>, 0) ELSE Failed("UnicodeDecodeError")

\* Lines 142-160: the document insert_many sends for one investor, with the
\* ObjectId the driver gives it; amounts become doubles.
ToDoc(inv, id) ==
  [id |-> id, name |-> inv.name, investor_type |-> inv.investor_type,
   country |-> inv.country,
   commitments |-> [k \in 1..Len(inv.commitments) |->
                      [asset_class |-> inv.commitments[k].asset_class,
                       amount |-> DecimalToFloat(inv.commitments[k].amount, 100),
                       currency |-> inv.commitments[k].currency]]]

\* ------------------------------------------------------ currency rates
\* Rates are written in hundredths: 125 is 1.25.
\* CURRENCY_TO_USD_RATES.get(currency, 1.0)
TableRate(currency) ==
  CASE currency = "GBP" -> 125 [] currency = "USD" -> 100 [] OTHER -> 100

\* convert_to_usd: exact Decimal product, in ten-thousandths.
convert_to_usd(amount, currency) == amount * TableRate(currency)

\* The $switch of the three pipelines.
SwitchRate(currency) ==
  CASE currency = "GBP" -> 125 [] currency = "USD" -> 100 [] OTHER -> 125

\* $multiply of a double by the double 1.25 or 1.0: the exact product
\* (a + a/4, or a) rounded to a double.
Multiply(a, rate) ==
  IF rate = 125 THEN RoundNearestEven(AddBits(a, ShiftRight2(a)), FALSE) ELSE a

\* $sum of doubles: the server adds them in extended precision and rounds the
\* total once.
RECURSIVE ExactSum(_, _)
ExactSum(xs, n) == IF n = 0 THEN Zero ELSE AddBits(ExactSum(xs, n - 1), xs[n])

Sum(xs) == RoundNearestEven(ExactSum(xs, Len(xs)), FALSE)

\* The $addFields stage shared by the three pipelines.
TotalCommitmentUsd(doc) ==
  Sum([k \in 1..Len(doc.commitments) |->
         Multiply(doc.commitments[k].amount,
                  SwitchRate(doc.commitments[k].currency))])

\* ---------------------------------------------------------------- queries
SummaryOf(doc) ==
  [id |-> doc.id, name |-> doc.name, investor_type |-> doc.investor_type,
   country |-> doc.country, total_commitment_usd |-> TotalCommitmentUsd(doc),
   commitment_count |-> Len(doc.commitments)]

\* As SortedDescending, with the $sort stage left out: any order.
AnyOrder(rows) ==
  LET n == Len(rows)
      perms == {f \in [1..n -> 1..n] : \A i, j \in 1..n : i # j => f[i] # f[j]}
  IN {[i \in 1..n |-> rows[f[i]]] : f \in perms}

\* {"$sort": {"total_commitment_usd": -1}}: any order of the documents with
\* the totals descending (the order of equal totals is the server's choice).
SortedDescending(rows) ==
  LET n == Len(rows)
      perms == {f \in [1..n -> 1..n] : \A i, j \in 1..n : i # j => f[i] # f[j]}
  IN {[i \in 1..n |-> rows[f[i]]] : f \in
        {g \in perms : \A i, j \in 1..n :
           i < j => ~Less(rows[g[i]].total_commitment_usd,
                          rows[g[j]].total_commitment_usd)}}

\* get_investors_summary: the bodies the pipeline may return for a collection.
get_investors_summary(docs) ==
  SortedDescending([i \in 1..Len(docs) |-> SummaryOf(docs[i])])

\* An investor_id of the path: 24 hex digits naming ObjectId oid, or text
\* that ObjectId() refuses.
WellFormed(oid) == [wellformed |-> TRUE, oid |-> oid]
Malformed == [wellformed |-> FALSE, oid |-> 0]
InvestorIds == {WellFormed(i) : i \in 1..(MaxId + 1)} \cup {Malformed}

\* get_investor_details: the response for investor_id over a collection.
get_investor_details(docs, investor_id) ==
  IF ~investor_id.wellformed
  THEN [op |-> "details", status |-> 500, investor_id |-> investor_id]
  ELSE LET found == {i \in 1..Len(docs) : docs[i].id = investor_id.oid}
       IN IF found = {}
          THEN [op |-> "details", status |-> 404, investor_id |-> investor_id]
          ELSE LET doc == docs[CHOOSE i \in found : TRUE]
               IN [op |-> "details", status |-> 200, investor_id |-> investor_id,
                   body |-> [id |-> doc.id, name |-> doc.name,
                             investor_type |-> doc.investor_type,
                             country |-> doc.country,
                             commitments |-> doc.commitments,
                             total_commitment_usd |-> TotalCommitmentUsd(doc)]]

RECURSIVE SumInts(_, _)
SumInts(xs, n) == IF n = 0 THEN 0 ELSE SumInts(xs, n - 1) + xs[n]

\* The $group stage of get_investment_stats over a non-empty collection.
StatsGroup(docs) ==
  [total_investors |-> Len(docs),
   total_commitments |-> SumInts([i \in 1..Len(docs) |-> Len(docs[i].commitments)],
                                 Len(docs)),
   unique_countries |-> {docs[i].country : i \in 1..Len(docs)},
   unique_asset_classes |->
     {[k \in 1..Len(docs[i].commitments) |-> docs[i].commitments[k].asset_class] :
        i \in 1..Len(docs)},
   total_commitment_amount |->
     Sum([i \in 1..Len(docs) |-> TotalCommitmentUsd(docs[i])])]

\* The $project stage: the fields it names, of those the document has.
StatsProject(g) ==
  LET named == {"total_investors", "total_commitments", "unique_countries",
                "total_commitment_amount_usd"}
      kept == [f \in named \cap DOMAIN g |-> g[f]]
  IN [f \in DOMAIN kept \cup {"unique_countries_count"} |->
        IF f = "unique_countries_count" THEN Cardinality(g.unique_countries)
        ELSE kept[f]]

\* get_investment_stats: the body returned for a collection.
get_investment_stats(docs) ==
  IF docs = <<>>
  THEN [total_investors |-> 0, total_commitments |-> 0,
        unique_countries_count |-> 0, unique_countries |-> {},
        total_commitment_amount_usd |-> Zero]
  ELSE StatsProject(StatsGroup(docs))

\* ---------------------------------------------------------------- actions
Init ==
  /\ store = <<>>
  /\ nextId = 1
  /\ pc = [p \in Workers |-> "idle"]
  /\ file = [p \in Workers |-> CsvFile(<<>>)]
  /\ investors_data = [p \in Workers |-> <<>>]
  /\ total_commitments = [p \in Workers |-> 0]
  /\ inserted = [p \in Workers |-> 0]
  /\ reply = NoReply
  /\ before = [p \in Workers |-> <<>>]
  /\ lastUpload = NoUpload

\* The 500 response, whose detail carries the text of the exception.
UploadFailed(error) == [op |-> "upload", status |-> 500, detail |-> error]

\* The worker's locals once its request is answered.
Return(p) ==
  /\ pc' = [pc EXCEPT ![p] = "idle"]
  /\ file' = [file EXCEPT ![p] = CsvFile(<<>>)]
  /\ investors_data' = [investors_data EXCEPT ![p] = <<>>]
  /\ total_commitments' = [total_commitments EXCEPT ![p] = 0]
  /\ inserted' = [inserted EXCEPT ![p] = 0]
  /\ before' = [before EXCEPT ![p] = <<>>]

\* Lines 172-179: the success response.
Succeed(p) ==
  /\ reply' = [op |-> "upload", status |-> 200,
               body |-> [total_investors |-> Len(investors_data[p]),
                         total_commitments |-> total_commitments[p],
                         success |-> TRUE]]
  /\ lastUpload' = [times |-> IF lastUpload.times = 0 THEN 1 ELSE 2,
                    file |-> file[p],
                    total_investors |-> Len(investors_data[p]),
                    total_commitments |-> total_commitments[p]]
  /\ Return(p)

\* Lines 181-183 and the router's lines 31-32: any exception becomes a 500.
Fail(p, error) ==
  /\ reply' = UploadFailed(error)
  /\ lastUpload' = NoUpload
  /\ Return(p)

\* POST /investors/upload-csv with a .csv name and an allowed size reaches
\* upload_csv_data, which awaits file.read().
ReceiveUpload(p, f) ==
  /\ pc[p] = "idle"
  /\ nextId + MaxRows * (Cardinality(InFlight) + 1) <= MaxId + 1
  /\ pc' = [pc EXCEPT ![p] = "read"]
  /\ file' = [file EXCEPT ![p] = f]
  /\ before' = [before EXCEPT ![p] = store]
  /\ lastUpload' = IF lastUpload.times > 0 /\ lastUpload.file = f
                   THEN lastUpload ELSE NoUpload
  /\ reply' = NoReply
  /\ UNCHANGED <<store, nextId, investors_data, total_commitments, inserted>>

\* The router's lines 23-27: another file name, or a body over 10 MB.
RejectUpload ==
  /\ reply' = [op |-> "upload", status |-> 400, detail |-> "Only CSV files are allowed"]
  /\ UNCHANGED <<store, nextId, pc, file, investors_data, total_commitments,
                 inserted, before, lastUpload>>

\* Lines 85-135, up to the await of delete_many.
Parse(p) ==
  /\ pc[p] = "read"
  /\ LET parsed == ParseFile(file[p])
     IN IF parsed.ok
        THEN /\ pc' = [pc EXCEPT ![p] = "delete"]
             /\ investors_data' = [investors_data EXCEPT ![p] = parsed.investors_data]
             /\ total_commitments' =
                  [total_commitments EXCEPT ![p] = parsed.total_commitments]
             /\ reply' = NoReply
             /\ UNCHANGED <<file, inserted, before, lastUpload>>
        ELSE Fail(p, parsed.error)
  /\ UNCHANGED <<store, nextId>>

\* As DeleteMany, with the delete_many call left out.
DeleteNothing(p) ==
  /\ pc[p] = "delete"
  /\ store' = store
  /\ IF investors_data[p] = <<>>
     THEN Succeed(p)
     ELSE /\ pc' = [pc EXCEPT ![p] = "insert"]
          /\ reply' = NoReply
          /\ UNCHANGED <<file, investors_data, total_commitments, inserted, before,
                         lastUpload>>
  /\ UNCHANGED nextId

\* Line 138, then lines 141-163: with no investor nothing is inserted and
\* the call returns.
DeleteMany(p) ==
  /\ pc[p] = "delete"
  /\ store' = <<>>
  /\ IF investors_data[p] = <<>>
     THEN Succeed(p)
     ELSE /\ pc' = [pc EXCEPT ![p] = "insert"]
          /\ reply' = NoReply
          /\ UNCHANGED <<file, investors_data, total_commitments, inserted, before,
                         lastUpload>>
  /\ UNCHANGED nextId

\* Line 164: insert_many writes the documents one at a time, in order.
InsertOne(p) ==
  /\ pc[p] = "insert"
  /\ nextId <= MaxId
  /\ store' = Append(store, ToDoc(investors_data[p][inserted[p] + 1], nextId))
  /\ nextId' = nextId + 1
  /\ inserted' = [inserted EXCEPT ![p] = @ + 1]
  /\ pc' = [pc EXCEPT ![p] = IF inserted[p] + 1 = Len(investors_data[p])
                             THEN "index" ELSE "insert"]
  /\ reply' = NoReply
  /\ UNCHANGED <<file, investors_data, total_commitments, before, lastUpload>>

\* Lines 167-179: the four create_index calls, then the response.
CreateIndexes(p) ==
  /\ pc[p] = "index"
  /\ Succeed(p)
  /\ UNCHANGED <<store, nextId>>

\* An awaited driver call (delete_many, insert_many, create_index) raises.
StorageFailure(p) ==
  /\ pc[p] \in {"delete", "insert", "index"}
  /\ Fail(p, "PyMongoError")
  /\ UNCHANGED <<store, nextId>>

Reads == <<store, nextId, pc, file, investors_data, total_commitments, inserted,
           before, lastUpload>>

\* GET /investors/summary
ListSummaries ==
  /\ \E body \in get_investors_summary(store) :
       reply' = [op |-> "summary", status |-> 200, body |-> body]
  /\ UNCHANGED Reads

\* GET /investors/{investor_id}/details
GetInvestorDetail(investor_id) ==
  /\ reply' = get_investor_details(store, investor_id)
  /\ UNCHANGED Reads

\* GET /investors/stats
GetPortfolioStatistics ==
  /\ reply' = [op |-> "stats", status |-> 200, body |-> get_investment_stats(store)]
  /\ UNCHANGED Reads

\* InvestorFilterModel: each constraint is <<>> when it is not provided and
\* <<value>> when it is; the commitment bounds are decimals in hundredths.
Filter(asset_class, investor_type, country, min_commitment, max_commitment) ==
  [asset_class |-> asset_class, investor_type |-> investor_type,
   country |-> country, min_commitment |-> min_commitment,
   max_commitment |-> max_commitment]

\* The query strings of GET /investors/summary-filtered that are tried.
Filters ==
  {Filter(<<>>, <<>>, <<>>, <<>>, <<>>),
   Filter(<<>>, <<"bank">>, <<>>, <<>>, <<>>),
   Filter(<<"Private Equity">>, <<>>, <<"United States">>, <<>>, <<>>),
   Filter(<<>>, <<>>, <<>>, <<100>>, <<20000>>)}

\* GET /investors/summary-filtered: the filter model is built and handed to
\* get_investors_summary, which builds its pipeline without reading it.
ListSummariesFiltered(filters) ==
  /\ \E body \in get_investors_summary(store) :
       reply' = [op |-> "filtered", status |-> 200, filters |-> filters,
                 body |-> body]
  /\ UNCHANGED Reads

Queries ==
  \/ ListSummaries
  \/ \E i \in InvestorIds : GetInvestorDetail(i)
  \/ GetPortfolioStatistics
  \/ \E filters \in Filters : ListSummariesFiltered(filters)

Upload(p) ==
  \/ Parse(p)
  \/ DeleteMany(p)
  \/ InsertOne(p)
  \/ CreateIndexes(p)
  \/ StorageFailure(p)

\* The service: requests are served concurrently.
Next ==
  \/ \E p \in Workers, f \in ConcFiles : ReceiveUpload(p, f)
  \/ \E p \in Workers : Upload(p)
  \/ RejectUpload
  \/ Queries

Spec == Init /\ [][Next]_vars

\* The service when no upload arrives while another is being served.
NextSeq ==
  \/ \E f \in Files : InFlight = {} /\ ReceiveUpload(1, f)
  \/ Upload(1)
  \/ RejectUpload
  \/ Queries

SpecSeq == Init /\ [][NextSeq]_vars

\* ---------------------------------------------------- the rate table alone
\* convert_to_usd applied to an amount (in hundredths) and a currency code.
MaxAmount == 40
CurrencyCodes == {"GBP", "USD", "EUR"}

Convert(amount, currency) ==
  /\ reply' = [op |-> "convert", amount |-> amount, currency |-> currency,
               usd |-> convert_to_usd(amount, currency)]
  /\ UNCHANGED Reads

NextConvert == \E amount \in 0..MaxAmount, currency \in CurrencyCodes :
                 Convert(amount, currency)

SpecConvert == Init /\ [][NextConvert]_vars

\* -------------------------------------------------- the date columns alone
(***************************************************************************)
(* The text of a date column is written by the format it is valid in and   *)
(* the day it names; text valid in no format names no day.  A datetime is  *)
(* a number of days; datetime.now() is any value of the clock.             *)
(***************************************************************************)
MaxDay == 3
IsoFormat == "%Y-%m-%d"
UsFormat == "%m/%d/%Y"
DateTexts == {[format |-> f, day |-> d] : f \in {IsoFormat, UsFormat}, d \in 1..MaxDay}
               \cup {[format |-> "other", day |-> 0]}
Clock == 1..(MaxDay + 1)

\* datetime.strptime(text, format): the datetime, or a ValueError.
strptime(text, format) ==
  IF text.format = format THEN [ok |-> TRUE, value |-> text.day]
  ELSE [ok |-> FALSE, value |-> 0]

\* Lines 97-108: <<date_added, last_updated>> of a row read at time now.
ParseDates(added, updated, now) ==
  LET a1 == strptime(added, IsoFormat)
      u1 == strptime(updated, IsoFormat)
      a2 == strptime(added, UsFormat)
      u2 == strptime(updated, UsFormat)
  IN IF a1.ok /\ u1.ok THEN <<a1.value, u1.value>>
     ELSE IF a2.ok /\ u2.ok THEN <<a2.value, u2.value>>
     ELSE <<now, now>>

ResolveDates(added, updated, now) ==
  /\ reply' = [op |-> "dates", added |-> added, updated |-> updated, now |-> now,
               date_added |-> ParseDates(added, updated, now)[1],
               last_updated |-> ParseDates(added, updated, now)[2]]
  /\ UNCHANGED Reads

NextDates == \E added \in DateTexts, updated \in DateTexts, now \in Clock :
               ResolveDates(added, updated, now)

SpecDates == Init /\ [][NextDates]_vars

\* ================================================================ claims
\* A collection without the ObjectIds, each investor with its computed total.
Stored(docs) ==
  [i \in 1..Len(docs) |->
     [name |-> docs[i].name, investor_type |-> docs[i].investor_type,
      country |-> docs[i].country, commitments |-> docs[i].commitments,
      total_commitment_usd |-> TotalCommitmentUsd(docs[i])]]

\* The collection that holds exactly the investors grouped in data.
StoredFrom(data) == Stored([i \in 1..Len(data) |-> ToDoc(data[i], 0)])

Finishes(p) == pc[p] # "idle" /\ pc'[p] = "idle"

\* C1: concurrent uploads are serialized: while one upload is between its
\* delete_many and the end of its insert_many no other upload changes the
\* collection, and when an upload's insert_many ends the collection holds
\* exactly that upload's investors (not a union, not a mix).
C1_UploadsSerialized ==
  [][\A p \in Workers :
       /\ (pc[p] = "insert" /\ pc'[p] = "insert" /\ inserted'[p] = inserted[p])
            => store' = store
       /\ (pc[p] = "insert" /\ pc'[p] = "index")
            => Stored(store') = StoredFrom(investors_data[p])]_vars

\* C2: the replace is atomic: when an upload attempt finishes, with success
\* or with any failure, the collection is what it was when the request
\* arrived or it is exactly the full set of the uploaded file.
C2_ReplaceIsAtomic ==
  [][\A p \in Workers :
       Finishes(p) =>
         \/ store' = before[p]
         \/ /\ ParseFile(file[p]).ok
            /\ Stored(store') = StoredFrom(ParseFile(file[p]).investors_data)]_vars

\* A row whose asset class or currency, stripped, is outside its enumeration.
BadCommitmentRow(row) ==
  \/ ~IsMember(AssetClassEnum, Strip(row.asset_class))
  \/ ~IsMember(CurrencyEnum, Strip(row.currency))

HasBadCommitmentRow(f) == \E i \in 1..Len(f.rows) : BadCommitmentRow(f.rows[i])

\* C3: an upload whose file has, at any position, a row with an asset class
\* or a currency outside its enumeration never gets past parsing: it ends
\* with an error response, and no step taken while it is being served
\* changes the collection.
C3_BadEnumAbortsUnchanged ==
  [][\A p \in Workers :
       (pc[p] # "idle" /\ HasBadCommitmentRow(file[p])) =>
         /\ store' = store
         /\ pc[p] = "read"
         /\ pc'[p] # "read" =>
              pc'[p] = "idle" /\ reply'.op = "upload" /\ reply'.status = 500]_vars

\* C3 witness: an upload was rejected for an asset class over a collection
\* that holds investors, which are still there.
C3_Witness ==
  /\ reply = UploadFailed("AssetClassEnum")
  /\ store # <<>>

\* C4: when a successful upload is followed by a successful upload of the
\* same file, the second reports the same counts as the first and leaves the
\* same investors with the same totals as the first left.
C4_ReingestIdempotent ==
  [][\A p \in Workers :
       (Finishes(p) /\ reply'.op = "upload" /\ reply'.status = 200
          /\ lastUpload.times > 0) =>
         /\ reply'.body.total_investors = lastUpload.total_investors
         /\ reply'.body.total_commitments = lastUpload.total_commitments
         /\ Stored(store') = Stored(before[p])]_vars

\* C4 witness: the same file of two investors has been uploaded twice.
C4_Witness ==
  /\ lastUpload.times = 2
  /\ reply.op = "upload" /\ reply.status = 200
  /\ Len(store) = 2

\* C5: a file with any row whose investor type, stripped, is outside the
\* enumeration is rejected: its upload never gets past parsing.
C5_BadInvestorTypeRejected ==
  \A p \in Workers :
    pc[p] \in {"delete", "insert", "index"} =>
      \A i \in 1..Len(file[p].rows) :
        IsMember(InvestorTypeEnum, Strip(file[p].rows[i].investor_type))

\* The decimal, in hundredths, that a stored amount prints as.
Amounts == {r.amount : r \in Rows}
DecimalOf(x) == CHOOSE n \in Amounts : DecimalToFloat(n, 100) = x

\* rate(GBP) = 1.25 and rate(USD) = 1.0, in hundredths.
Rate(currency) == IF currency = "GBP" THEN 125 ELSE 100

\* The sum of amount x rate over commitments, in ten-thousandths.
RECURSIVE ExactTotal(_, _)
ExactTotal(cs, n) ==
  IF n = 0 THEN 0
  ELSE ExactTotal(cs, n - 1) + DecimalOf(cs[n].amount) * Rate(cs[n].currency)

\* The total is the number that reads as that decimal sum.
IsExactTotal(total, cs) == total = DecimalToFloat(ExactTotal(cs, Len(cs)), 10000)

\* C6: for every stored investor the total_commitment_usd of the summary
\* and of the detail equals the sum of amount x rate over its commitments.
C6_TotalIsExactSum ==
  /\ (reply.op = "summary") =>
       \A i \in 1..Len(reply.body) : \A j \in 1..Len(store) :
         store[j].id = reply.body[i].id =>
           IsExactTotal(reply.body[i].total_commitment_usd, store[j].commitments)
  /\ (reply.op = "details" /\ reply.status = 200) =>
       IsExactTotal(reply.body.total_commitment_usd, reply.body.commitments)

\* Rows of the last uploaded file whose stripped name is name.
RowsNamed(name) ==
  {i \in 1..Len(lastUpload.file.rows) : Strip(lastUpload.file.rows[i].name) = name}

\* C7: after a successful upload the summary has exactly one investor per
\* distinct stripped name of the file, with commitment_count the number of
\* rows of that name.
C7_CountIsRowsPerName ==
  (reply.op = "summary" /\ lastUpload.times > 0 /\ InFlight = {}) =>
    LET rows == lastUpload.file.rows
        names == {Strip(rows[i].name) : i \in 1..Len(rows)}
    IN /\ {reply.body[i].name : i \in 1..Len(reply.body)} = names
       /\ Len(reply.body) = Cardinality(names)
       /\ \A i \in 1..Len(reply.body) :
            reply.body[i].commitment_count = Cardinality(RowsNamed(reply.body[i].name))

\* C7 witness: the summary after the upload of a file that spells one
\* investor in two ways shows that investor with both rows.
C7_Witness ==
  /\ reply.op = "summary" /\ lastUpload.times > 0 /\ InFlight = {}
  /\ Len(lastUpload.file.rows) = 2
  /\ lastUpload.file.rows[1].name # lastUpload.file.rows[2].name
  /\ Len(reply.body) = 1 /\ reply.body[1].commitment_count = 2

\* C8: the statistics always carry the total commitment amount, equal to
\* the sum of the investors' totals, with the counts and the countries; on
\* an empty collection the counts and the total are zero and there is no
\* country.
C8_StatsCarryTotal ==
  (reply.op = "stats") =>
    /\ reply.status = 200
    /\ reply.body.total_investors = Len(store)
    /\ reply.body.unique_countries = {store[i].country : i \in 1..Len(store)}
    /\ reply.body.unique_countries_count = Cardinality(reply.body.unique_countries)
    /\ "total_commitment_amount_usd" \in DOMAIN reply.body
    /\ reply.body.total_commitment_amount_usd =
         Sum([i \in 1..Len(store) |-> TotalCommitmentUsd(store[i])])
    /\ store = <<>> => reply.body.total_commitments = 0

\* C9: the detail of a well-formed identifier that matches no investor is
\* NotFound, and a malformed identifier gets a client error, never a
\* server error.
C9_DetailErrorsAreClientErrors ==
  (reply.op = "details") =>
    /\ (reply.investor_id.wellformed
          /\ \A i \in 1..Len(store) : store[i].id # reply.investor_id.oid)
         => reply.status = 404
    /\ ~reply.investor_id.wellformed => reply.status \in {400, 404, 422}

\* C10: for every currency code convert_to_usd applies the rate that the
\* pipelines' $switch applies.
C10_ConverterMatchesSwitch ==
  (reply.op = "convert") => reply.usd = reply.amount * SwitchRate(reply.currency)

\* What a date column resolves to on its own: the day it names when it is
\* valid in one of the two formats, the processing time otherwise.
Resolved(text, now) ==
  IF text.format \in {IsoFormat, UsFormat} THEN text.day ELSE now

\* C11: each of the two date fields is resolved on its own: a field valid
\* in the ISO or in the US format is stored as its parsed date whatever the
\* other field is, and a field valid in neither is stored as the current
\* processing time.
C11_DatesResolvedIndependently ==
  (reply.op = "dates") =>
    /\ reply.date_added = Resolved(reply.added, reply.now)
    /\ reply.last_updated = Resolved(reply.updated, reply.now)

\* C12: the summary list holds every stored investor exactly once, with its
\* total, and no entry has a smaller total than an entry after it.
C12_SummarySortedDescending ==
  (reply.op = "summary") =>
    /\ Len(reply.body) = Len(store)
    /\ \A j \in 1..Len(store) :
         Cardinality({i \in 1..Len(reply.body) :
                        /\ reply.body[i].id = store[j].id
                        /\ reply.body[i].name = store[j].name
                        /\ reply.body[i].total_commitment_usd =
                             TotalCommitmentUsd(store[j])}) = 1
    /\ \A i, j \in 1..Len(reply.body) :
         i < j => ~Less(reply.body[i].total_commitment_usd,
                        reply.body[j].total_commitment_usd)

\* C12 witness: a summary of two investors whose totals differ, the larger
\* first although it was stored second.
C12_Witness ==
  /\ reply.op = "summary" /\ Len(reply.body) = 2
  /\ Less(reply.body[2].total_commitment_usd, reply.body[1].total_commitment_usd)
  /\ reply.body[1].id = store[2].id

\* Whether a stored investor meets every constraint the filter provides.
Satisfies(doc, filters) ==
  /\ filters.asset_class # <<>> =>
       \E k \in 1..Len(doc.commitments) :
         doc.commitments[k].asset_class = filters.asset_class[1]
  /\ filters.investor_type # <<>> => doc.investor_type = filters.investor_type[1]
  /\ filters.country # <<>> => doc.country = filters.country
  /\ filters.min_commitment # <<>> =>
       ~Less(TotalCommitmentUsd(doc), DecimalToFloat(filters.min_commitment[1], 100))
  /\ filters.max_commitment # <<>> =>
       ~Less(DecimalToFloat(filters.max_commitment[1], 100), TotalCommitmentUsd(doc))

\* C13: the filtered summary list holds exactly the stored investors that
\* meet all the constraints provided.
C13_FilterIsConjunctive ==
  (reply.op = "filtered") =>
    {reply.body[i].id : i \in 1..Len(reply.body)} =
      {store[j].id : j \in {k \in 1..Len(store) : Satisfies(store[k], reply.filters)}}

\* An upload of a non-empty file over a non-empty collection that has done
\* its delete_many and none of its inserts.
BetweenDeleteAndInsert(p) ==
  /\ pc[p] = "insert" /\ inserted[p] = 0
  /\ before[p] # <<>> /\ investors_data[p] # <<>>

\* C14: a read answered while an upload of a non-empty file over a
\* non-empty collection stands between its delete_many and its first insert
\* is answered from an empty collection: no summary entry, zero investors in
\* the statistics, no investor detail.
C14_ReadsSeeEmptyCollection ==
  \A p \in Workers :
    BetweenDeleteAndInsert(p) =>
      /\ reply.op \in {"summary", "filtered"} => reply.body = <<>>
      /\ reply.op = "stats" => reply.body.total_investors = 0
      /\ reply.op = "details" => reply.status # 200

\* C14 witness: a summary list read at that point is empty, which is neither
\* the collection before the upload nor the one after it.
C14_Witness ==
  /\ \E p \in Workers : BetweenDeleteAndInsert(p)
  /\ reply.op = "summary" /\ reply.body = <<>>

\* C15: no two stored investors have the same name, and every stored
\* investor has at least one commitment.
C15_NamesUniqueAndCommitted ==
  /\ \A i, j \in 1..Len(store) : store[i].name = store[j].name => i = j
  /\ \A i \in 1..Len(store) : Len(store[i].commitments) >= 1

\* C15 witness: after a rejected upload the collection still holds one
\* investor, grouped from two rows of the file uploaded before.
C15_Witness ==
  /\ reply = UploadFailed("InvestorTypeEnum")
  /\ Len(store) = 1 /\ Len(store[1].commitments) = 2
  /\ lastUpload.times = 0

====
